---- MODULE Spec2Model ----
(***************************************************************************)
(* Model of shop/models.py: the Category and Product tables, the slug      *)
(* generator, Category.save, Category.__str__, cascading deletion and the  *)
(* ProductProxy manager.                                                   *)
(*                                                                         *)
(* Strings are sequences of one-character strings.  Primary keys are       *)
(* positive integers; 0 stands for None (no row, no parent).               *)
(***************************************************************************)
EXTENDS Integers, Sequences, FiniteSets, TLC

VARIABLES
    categories,   \* the Category table: pk -> [name, parent, slug]
    products,     \* the Product table:  pk -> [category, title, available]
    nextCatId,    \* next auto-increment pk of the Category table
    nextProdId,   \* next auto-increment pk of the Product table
    rng,          \* the indexes the next SlugLen random.choice calls pick
    last          \* the last operation: its arguments and what it returned

vars == <<categories, products, nextCatId, nextProdId, rng, last>>

\* ------------------------------------------------------------------ bounds
MaxCats == 2
MaxChain == 3
MaxTree == 4
MaxProds == 2
MaxShelf == 2
MaxNameLen == 2

\* ------------------------------------------------------------- characters
LowerLetters ==
    <<"a","b","c","d","e","f","g","h","i","j","k","l","m",
      "n","o","p","q","r","s","t","u","v","w","x","y","z">>

UpperLetters ==
    <<"A","B","C","D","E","F","G","H","I","J","K","L","M",
      "N","O","P","Q","R","S","T","U","V","W","X","Y","Z">>

Digits == <<"0","1","2","3","4","5","6","7","8","9">>

\* string.ascii_lowercase + string.digits
Alphabet == LowerLetters \o Digits

\* number of characters rand_slug joins: range(3)
SlugLen == 3

\* Characters outside ASCII, named by code point: U+00E9 (e with acute, which
\* NFKD decomposes to "e" + U+0301) and U+044F (Cyrillic ya, no decomposition).
EAcute == "U+00E9"
CyrYa == "U+044F"

Range(s) == {s[i] : i \in DOMAIN s}

\* the ASCII characters names are written with
AsciiChars ==
    Range(LowerLetters) \cup Range(UpperLetters) \cup Range(Digits)
        \cup {" ", "-", "_", "!", ">"}

IsAscii(c) == c \in AsciiChars

\* ------------------------------------------------------------------ rand_slug
\* ''.join(random.choice(string.ascii_lowercase + string.digits) for _ in range(3));
\* r[i] is the index the i-th random.choice call picks.
\* rand_slug drawing from letters of both cases instead of lowercase and digits
rand_slug_mixed_case(r) ==
    [i \in 1..SlugLen |-> (LowerLetters \o UpperLetters)[r[i]]]

rand_slug(r) == [i \in 1..SlugLen |-> Alphabet[r[i]]]

\* ------------------------------------------------------------------ slugify
\* unicodedata.normalize("NFKD", value).encode("ascii", "ignore").decode("ascii"):
\* a decomposable letter leaves its base letter, any other non-ASCII character
\* is dropped
FoldChar(c) == IF c = EAcute THEN "e" ELSE c

AsciiFold(s) == SelectSeq([i \in DOMAIN s |-> FoldChar(s[i])], IsAscii)

\* str.lower() on ASCII text
ToLower == [c \in Range(UpperLetters) |->
               LowerLetters[CHOOSE i \in DOMAIN UpperLetters : UpperLetters[i] = c]]

LowerChar(c) == IF c \in DOMAIN ToLower THEN ToLower[c] ELSE c

Lower(s) == [i \in DOMAIN s |-> LowerChar(s[i])]

\* re.sub(r"[^\w\s-]", "", value): keep word characters, whitespace and hyphens
SlugChars ==
    Range(LowerLetters) \cup Range(UpperLetters) \cup Range(Digits)
        \cup {"_", " ", "-"}

IsSlugChar(c) == c \in SlugChars

StripInvalid(s) == SelectSeq(s, IsSlugChar)

\* re.sub(r"[-\s]+", "-", value): every run of hyphens and whitespace becomes
\* one "-": the first character of a run is written "-", the others are dropped
IsDashOrSpace(c) == c \in {"-", " "}

StartsRun(s, i) == IsDashOrSpace(s[i]) /\ (i = 1 \/ ~IsDashOrSpace(s[i - 1]))

InsideRun(s, i) == IsDashOrSpace(s[i]) /\ ~StartsRun(s, i)

Dropped == "dropped"

NotDropped(c) == c # Dropped

Collapse(s) ==
    SelectSeq([i \in DOMAIN s |-> IF StartsRun(s, i) THEN "-"
                                  ELSE IF InsideRun(s, i) THEN Dropped
                                  ELSE s[i]],
              NotDropped)

\* str.strip("-_"): what lies between the first and the last character that is
\* neither "-" nor "_"
IsDashOrUnderscore(c) == c \in {"-", "_"}

Strip(s) ==
    LET kept == {i \in DOMAIN s : ~IsDashOrUnderscore(s[i])}
    IN  IF kept = {} THEN <<>>
        ELSE SubSeq(s, CHOOSE i \in kept : \A j \in kept : i <= j,
                       CHOOSE i \in kept : \A j \in kept : i >= j)

\* django.utils.text.slugify(value), allow_unicode=False
slugify(value) == Strip(Collapse(StripInvalid(Lower(AsciiFold(value)))))

\* ------------------------------------------------------------------ tables
NoOp ==
    [op |-> "none", pk |-> 0, name |-> <<>>, parent |-> 0, inSlug |-> <<>>,
     slug |-> <<>>, ok |-> TRUE, out |-> <<>>, cats |-> {}, prods |-> {}]

\* the table t with row r stored under primary key pk (INSERT or UPDATE)
Put(t, pk, r) == [k \in DOMAIN t \cup {pk} |-> IF k = pk THEN r ELSE t[k]]

\* the table t without the rows whose primary key is in gone (DELETE)
Without(t, gone) == [k \in DOMAIN t \ gone |-> t[k]]

\* the slug column declared without unique=True
UniqueSlugViolated_not_declared(pk, slug) == FALSE

\* slug = models.SlugField(..., unique=True): another row already has the slug
UniqueSlugViolated(pk, slug) ==
    \E k \in DOMAIN categories : k # pk /\ categories[k].slug = slug

\* unique_together = ('slug', 'parent'): another row has the same slug and the
\* same parent; a NULL parent never compares equal in the unique index
UniqueTogetherViolated(pk, slug, parent) ==
    \E k \in DOMAIN categories :
        /\ k # pk
        /\ parent # 0
        /\ categories[k].slug = slug
        /\ categories[k].parent = parent

\* ------------------------------------------------------------------ Category.save
\* '-pickBetter'
Separator == <<"-","p","i","c","k","B","e","t","t","e","r">>

\* save building the slug from the token and the separator only
SlugForSave_without_name(inst, r) ==
    IF inst.slug = <<>>
    THEN slugify(rand_slug(r) \o Separator)
    ELSE inst.slug

\* save generating a slug whether or not the instance has one
SlugForSave_regenerate(inst, r) ==
    slugify(rand_slug(r) \o Separator \o inst.name)

\* if not self.slug: self.slug = slugify(rand_slug() + '-pickBetter' + self.name)
SlugForSave(inst, r) ==
    IF inst.slug = <<>>
    THEN slugify(rand_slug(r) \o Separator \o inst.name)
    ELSE inst.slug

\* a save that writes the row whatever the unique constraints say
IntegrityError_never(pk, row) == FALSE

\* super(Category, self).save(): INSERT when the instance has no pk, else UPDATE;
\* the database raises IntegrityError when a unique constraint is violated
IntegrityError(pk, row) ==
    \/ UniqueSlugViolated(pk, row.slug)
    \/ UniqueTogetherViolated(pk, row.slug, row.parent)

Persisted(pk, row) == Put(categories, pk, row)

\* self.save(); next is what the random source holds after a token was drawn
CategorySave(inst, next) ==
    /\ LET slug == SlugForSave(inst, rng)
           pk   == IF inst.pk = 0 THEN nextCatId ELSE inst.pk
           row  == [name |-> inst.name, parent |-> inst.parent, slug |-> slug]
           bad  == IntegrityError(pk, row)
       IN  /\ categories' = IF bad THEN categories ELSE Persisted(pk, row)
           /\ nextCatId' = IF bad \/ inst.pk # 0 THEN nextCatId ELSE nextCatId + 1
           /\ last' = [NoOp EXCEPT !.op = "category_save",
                                   !.pk = IF bad THEN inst.pk ELSE pk,
                                   !.name = inst.name,
                                   !.parent = inst.parent,
                                   !.inSlug = inst.slug,
                                   !.slug = slug,
                                   !.ok = ~bad]
    /\ rng' = IF inst.slug = <<>> THEN next ELSE rng
    /\ UNCHANGED <<products, nextProdId>>

\* ------------------------------------------------------------------ Category.__str__
\* the loop of __str__: while k is not None: full_path.append(k.name); k = k.parent
RECURSIVE Walk(_, _)
Walk(k, full_path) ==
    IF k = 0 THEN full_path
    ELSE Walk(categories[k].parent, Append(full_path, categories[k].name))

\* whether that loop ends: following parent from k reaches None within n hops
RECURSIVE ReachesNone(_, _)
ReachesNone(k, n) ==
    IF k = 0 THEN TRUE
    ELSE IF n = 0 THEN FALSE
    ELSE ReachesNone(categories[k].parent, n - 1)

LoopEnds(c) == ReachesNone(c, Cardinality(DOMAIN categories))

\* the path joined in the order the loop collected it
Reversed_not(s) == s

\* full_path[::-1]
Reversed(s) == [i \in 1..Len(s) |-> s[Len(s) + 1 - i]]

\* ' -> '
Arrow == <<" ", "-", ">", " ">>

\* sep.join(parts)
RECURSIVE Join(_, _)
Join(sep, parts) ==
    IF parts = <<>> THEN <<>>
    ELSE IF Len(parts) = 1 THEN parts[1]
    ELSE parts[1] \o sep \o Join(sep, Tail(parts))

\* the list __str__ joins
FullPath(c) == Reversed(Walk(categories[c].parent, <<categories[c].name>>))

\* str(category) for the stored category c; when the parent chain is cyclic the
\* loop never ends and nothing is returned (ok = FALSE)
CategoryStr(c) ==
    /\ c \in DOMAIN categories
    /\ last' = [NoOp EXCEPT !.op = "category_str",
                            !.pk = c,
                            !.ok = LoopEnds(c),
                            !.out = IF LoopEnds(c) THEN Join(Arrow, FullPath(c))
                                    ELSE <<>>]
    /\ UNCHANGED <<categories, products, nextCatId, nextProdId, rng>>

\* ------------------------------------------------------------------ deletion
\* parent = ForeignKey('self', on_delete=CASCADE): the deletion collector follows
\* the children relation from the collected rows until nothing new turns up
RECURSIVE Collect(_, _)
Collect(frontier, seen) ==
    LET found == {k \in DOMAIN categories : categories[k].parent \in frontier} \ seen
    IN  IF found = {} THEN seen ELSE Collect(found, seen \cup found)

\* a cascade that stops at the children of the deleted row
CascadeCategories_one_level(c) ==
    {c} \cup {k \in DOMAIN categories : categories[k].parent = c}

CascadeCategories(c) == Collect({c}, {c})

\* category = ForeignKey(Category, on_delete=CASCADE): products of collected rows
CascadeProducts(cats) == {p \in DOMAIN products : products[p].category \in cats}

\* category.delete()
CategoryDelete(c) ==
    /\ c \in DOMAIN categories
    /\ LET cats  == CascadeCategories(c)
           prods == CascadeProducts(cats)
       IN  /\ categories' = Without(categories, cats)
           /\ products' = Without(products, prods)
           /\ last' = [NoOp EXCEPT !.op = "category_delete", !.pk = c,
                                   !.cats = cats, !.prods = prods]
    /\ UNCHANGED <<nextCatId, nextProdId, rng>>

\* ------------------------------------------------------------------ Product
\* product.save(): INSERT when the instance has no pk, else UPDATE
ProductSave(inst) ==
    /\ inst.category \in DOMAIN categories
    /\ LET pk  == IF inst.pk = 0 THEN nextProdId ELSE inst.pk
           row == [category |-> inst.category, title |-> inst.title,
                   available |-> inst.available]
       IN  /\ products' = Put(products, pk, row)
           /\ nextProdId' = IF inst.pk = 0 THEN nextProdId + 1 ELSE nextProdId
           /\ last' = [NoOp EXCEPT !.op = "product_save", !.pk = pk]
    /\ UNCHANGED <<categories, nextCatId, rng>>

\* product.delete()
ProductDelete(p) ==
    /\ p \in DOMAIN products
    /\ products' = Without(products, {p})
    /\ last' = [NoOp EXCEPT !.op = "product_delete", !.pk = p, !.prods = {p}]
    /\ UNCHANGED <<categories, nextCatId, nextProdId, rng>>

\* ------------------------------------------------------------------ queries
\* position of a character in the collation of titles (ASCII lowercase)
CharRank(c) == CHOOSE i \in DOMAIN LowerLetters : LowerLetters[i] = c

\* a <= b in the alphabetical order ORDER BY title uses
RECURSIVE TitleLeq(_, _)
TitleLeq(a, b) ==
    IF a = <<>> THEN TRUE
    ELSE IF b = <<>> THEN FALSE
    ELSE IF Head(a) = Head(b) THEN TitleLeq(Tail(a), Tail(b))
    ELSE CharRank(Head(a)) < CharRank(Head(b))

\* a Meta without ordering: rows come back in any order
OrderedByTitle_unordered(qs) == TRUE

\* class Meta: ordering = ['title'].  The rows of the Product table in an order
\* the database may return them in: every row once, titles ascending, rows of
\* equal title in any order
OrderedByTitle(qs) ==
    \A i, j \in DOMAIN qs :
        i < j => TitleLeq(products[qs[i]].title, products[qs[j]].title)

DefaultQuerySets ==
    {qs \in [1..Cardinality(DOMAIN products) -> DOMAIN products] :
        /\ \A i, j \in DOMAIN qs : i # j => qs[i] # qs[j]
        /\ OrderedByTitle(qs)}

IsAvailable(p) == products[p].available

\* a manager that does not filter
get_queryset_unfiltered(qs) == qs

\* ProductManager.get_queryset: super().get_queryset().filter(available=True)
get_queryset(qs) == SelectSeq(qs, IsAvailable)

\* list(Product.objects.all())
ProductAll(qs) ==
    /\ qs \in DefaultQuerySets
    /\ last' = [NoOp EXCEPT !.op = "product_all", !.out = qs]
    /\ UNCHANGED <<categories, products, nextCatId, nextProdId, rng>>

\* list(ProductProxy.objects.all())
ProxyAll(qs) ==
    /\ qs \in DefaultQuerySets
    /\ last' = [NoOp EXCEPT !.op = "proxy_all", !.out = get_queryset(qs)]
    /\ UNCHANGED <<categories, products, nextCatId, nextProdId, rng>>

\* rand_slug() called on its own
RandSlugCall(next) ==
    /\ last' = [NoOp EXCEPT !.op = "rand_slug", !.out = rand_slug(rng)]
    /\ rng' = next
    /\ UNCHANGED <<categories, products, nextCatId, nextProdId>>

\* ------------------------------------------------------------------ inputs
\* names given to categories
ShortNames == {<<"a">>, <<"B">>}

\* every name of at most MaxNameLen characters over letters of both cases,
\* whitespace, hyphen, underscore, punctuation and non-ASCII letters
NameChars == {"a", "B", " ", "-", "_", "!", EAcute, CyrYa}

AllNames == UNION {[1..n -> NameChars] : n \in 0..MaxNameLen}

\* slugs a caller supplies; <<>> is the empty slug of a fresh instance
SuppliedSlugs == {<<"s">>}

\* a slug a caller makes up for the next row, different for every row
FreshSlug == <<"c", Digits[nextCatId]>>

\* two outcomes of SlugLen random.choice calls: the tokens "sz6" and "3ah"
SomeDraws == {<<19, 26, 33>>, <<30, 1, 8>>}

AllDraws == [1..SlugLen -> 1..Len(Alphabet)]

Titles == {<<"a">>, <<"a", "b">>, <<"b">>}

\* Category(name=..., parent=..., slug=...) built by a caller, not yet saved
NewCategories(names, slugs) ==
    [pk : {0}, name : names, parent : DOMAIN categories \cup {0}, slug : slugs]

\* a stored category loaded and edited by a caller: any of name, parent and slug
\* may be reassigned before save
LoadedCategories(names, slugs) ==
    UNION {[pk : {k},
            name : names \cup {categories[k].name},
            parent : DOMAIN categories \cup {0},
            slug : slugs \cup {categories[k].slug}] : k \in DOMAIN categories}

NewProducts(titles, flags) ==
    [pk : {0}, category : DOMAIN categories, title : titles, available : flags]

LoadedProducts(titles, flags) ==
    UNION {[pk : {p}, category : DOMAIN categories, title : titles,
            available : flags] : p \in DOMAIN products}

\* what the random source may hold after inst is saved: something new when the
\* save drew a token, what it held otherwise
DrawsAfter(inst) == IF inst.slug = <<>> THEN SomeDraws ELSE {rng}

\* ------------------------------------------------------------------ specifications
Init ==
    /\ categories = <<>>
    /\ products = <<>>
    /\ nextCatId = 1
    /\ nextProdId = 1
    /\ rng \in SomeDraws
    /\ last = NoOp

\* saving: categories created with a supplied or a generated slug, edited
\* (parent, slug) and deleted, with a product in the table
Next ==
    \/ \E inst \in NewCategories({<<"a">>}, SuppliedSlugs \cup {<<>>}) :
           \E next \in DrawsAfter(inst) : nextCatId <= MaxCats /\ CategorySave(inst, next)
    \/ \E inst \in LoadedCategories({}, SuppliedSlugs) :
           CategorySave(inst, rng)
    \/ \E c \in DOMAIN categories : CategoryDelete(c)
    \/ \E inst \in NewProducts({<<"a">>}, {TRUE}) :
           DOMAIN products = {} /\ ProductSave(inst)

Spec == Init /\ [][Next]_vars

\* breadcrumbs: categories created under any stored parent, moved, and printed
NextPaths ==
    \/ \E inst \in NewCategories(ShortNames, {FreshSlug}) :
           nextCatId <= MaxChain /\ CategorySave(inst, rng)
    \/ \E inst \in LoadedCategories({}, {}) : CategorySave(inst, rng)
    \/ \E c \in DOMAIN categories : CategoryStr(c)

SpecPaths == Init /\ [][NextPaths]_vars

\* deletion: a category tree with products, categories deleted
NextCascade ==
    \/ \E inst \in NewCategories({<<"a">>}, {FreshSlug}) :
           nextCatId <= MaxTree /\ CategorySave(inst, rng)
    \/ \E inst \in NewProducts({<<"a">>}, {TRUE}) :
           nextProdId <= MaxProds /\ ProductSave(inst)
    \/ \E c \in DOMAIN categories : CategoryDelete(c)

SpecCascade == Init /\ [][NextCascade]_vars

\* the shelf: products of one category saved, edited, deleted and queried
NextShelf ==
    \/ \E inst \in NewCategories({<<"a">>}, SuppliedSlugs) :
           DOMAIN categories = {} /\ CategorySave(inst, rng)
    \/ \E inst \in NewProducts(Titles, BOOLEAN) :
           nextProdId <= MaxShelf /\ ProductSave(inst)
    \/ \E inst \in LoadedProducts(Titles, BOOLEAN) : ProductSave(inst)
    \/ \E p \in DOMAIN products : ProductDelete(p)
    \/ \E qs \in DefaultQuerySets : ProductAll(qs)
    \/ \E qs \in DefaultQuerySets : ProxyAll(qs)

SpecShelf == Init /\ [][NextShelf]_vars

\* one category of any name: its first save and the saves after it, with the
\* name or the slug reassigned in between
NextSlug ==
    \/ \E inst \in NewCategories(AllNames, SuppliedSlugs \cup {<<>>}) :
           \E next \in DrawsAfter(inst) :
               DOMAIN categories = {} /\ CategorySave(inst, next)
    \/ \E inst \in LoadedCategories(ShortNames, SuppliedSlugs \cup {<<>>}) :
           \E next \in DrawsAfter(inst) : inst.parent = 0 /\ CategorySave(inst, next)

SpecSlug == Init /\ [][NextSlug]_vars

\* rand_slug on every outcome of the random source, called with the tables
\* empty or holding a category and a product
InitRand ==
    /\ categories = <<>>
    /\ products = <<>>
    /\ nextCatId = 1
    /\ nextProdId = 1
    /\ rng \in AllDraws
    /\ last = NoOp

NextRand ==
    \/ \E next \in SomeDraws : RandSlugCall(next)
    \/ \E inst \in NewCategories({<<"a">>}, SuppliedSlugs) :
           DOMAIN categories = {} /\ CategorySave(inst, rng)
    \/ \E inst \in NewProducts({<<"a">>}, {TRUE}) :
           DOMAIN products = {} /\ ProductSave(inst)

SpecRand == InitRand /\ [][NextRand]_vars

\* ------------------------------------------------------------------ properties
EndsWith(s, p) == Len(p) <= Len(s) /\ SubSeq(s, Len(s) - Len(p) + 1, Len(s)) = p

\* the 36 characters of a token
TokenChars ==
    {"a","b","c","d","e","f","g","h","i","j","k","l","m","n","o","p","q","r",
     "s","t","u","v","w","x","y","z","0","1","2","3","4","5","6","7","8","9"}

\* the separator as it appears in a slug
SlugSeparator == <<"-","p","i","c","k","b","e","t","t","e","r">>

\* C1: a category saved with an empty slug is stored with a non-empty slug made
\* of the random token, the separator and then a rest that ends with the
\* slugified name, whatever the name (also one that slugifies to nothing).
C1_SlugDerivedFromName ==
    (last.op = "category_save" /\ last.inSlug = <<>> /\ last.ok) =>
        LET slug == categories[last.pk].slug
            head == SlugLen + Len(SlugSeparator)
        IN  /\ slug # <<>>
            /\ Len(slug) >= head
            /\ \A i \in 1..SlugLen : slug[i] \in TokenChars
            /\ SubSeq(slug, SlugLen + 1, head) = SlugSeparator
            /\ EndsWith(SubSeq(slug, head + 1, Len(slug)), slugify(last.name))

\* a category whose name is made of non-ASCII letters or punctuation only was
\* saved with an empty slug, and so was one whose name has a slug of its own
C1_Witness ==
    /\ last.op = "category_save" /\ last.inSlug = <<>> /\ last.ok
    /\ last.name # <<>>
    /\ CyrYa \in Range(last.name)
    /\ slugify(last.name) = <<>>

\* C2: no two stored categories have the same (slug, parent) pair, root
\* categories (no parent) included.
C2_SlugParentUnique ==
    \A a, b \in DOMAIN categories :
        a # b =>
            <<categories[a].slug, categories[a].parent>>
                # <<categories[b].slug, categories[b].parent>>

\* two root categories are stored and a save giving a root category the slug
\* of the other one has just been refused
C2_Witness ==
    /\ last.op = "category_save" /\ ~last.ok /\ last.parent = 0
    /\ \E a, b \in DOMAIN categories :
           /\ a # b
           /\ categories[a].parent = 0 /\ categories[b].parent = 0
           /\ categories[a].slug = last.slug

\* the names from the root down to c, each followed by the separator and the
\* next one
RECURSIVE RootToLeaf(_)
RootToLeaf(c) ==
    IF categories[c].parent = 0 THEN categories[c].name
    ELSE RootToLeaf(categories[c].parent) \o Arrow \o categories[c].name

\* C3: for a category with a finite ancestor chain, __str__ returns the names
\* from the root down to the category itself joined by " -> ", and just the
\* name for a category without parent.
C3_StrIsRootToLeaf ==
    (last.op = "category_str" /\ LoopEnds(last.pk)) =>
        /\ last.ok
        /\ last.out = RootToLeaf(last.pk)
        /\ categories[last.pk].parent = 0 => last.out = categories[last.pk].name

\* __str__ returned for a category two levels below a root of another name
C3_Witness ==
    /\ last.op = "category_str" /\ last.ok
    /\ LET p == categories[last.pk].parent
       IN  /\ p # 0
           /\ categories[p].parent # 0
           /\ categories[categories[p].parent].parent = 0
           /\ categories[categories[p].parent].name # categories[last.pk].name

\* the categories met by following parent from k, at most n hops
RECURSIVE Ancestors(_, _)
Ancestors(k, n) ==
    IF n = 0 \/ categories[k].parent = 0 THEN {}
    ELSE {categories[k].parent} \cup Ancestors(categories[k].parent, n - 1)

\* c and the categories below it at any depth
Subtree(c) ==
    {c} \cup {d \in DOMAIN categories :
                 c \in Ancestors(d, Cardinality(DOMAIN categories))}

\* C4: deleting a category removes it, every category below it at any depth
\* and every product of one of those, in one step, and leaves every other
\* category and product as it was.
C4_DeleteCascades ==
    [][\A c \in DOMAIN categories :
          CategoryDelete(c) =>
              LET gone == Subtree(c)
                  sold == {p \in DOMAIN products : products[p].category \in gone}
              IN  /\ DOMAIN categories' = DOMAIN categories \ gone
                  /\ DOMAIN products' = DOMAIN products \ sold
                  /\ \A k \in DOMAIN categories' : categories'[k] = categories[k]
                  /\ \A p \in DOMAIN products' : products'[p] = products[p]]_vars

\* a delete took a category, its child, its grandchild and a product with it
\* and left another category and its product behind
C4_Witness ==
    /\ last.op = "category_delete"
    /\ Cardinality(last.cats) >= 3
    /\ last.prods # {}
    /\ DOMAIN categories # {}
    /\ DOMAIN products # {}

\* C5: the default query of ProductProxy returns exactly the stored products
\* that are available, each once, and the default query of Product returns
\* every stored product, each once.
C5_ProxyReturnsAvailable ==
    /\ last.op = "proxy_all" =>
           /\ Range(last.out) = {p \in DOMAIN products : products[p].available}
           /\ Len(last.out) = Cardinality(Range(last.out))
    /\ last.op = "product_all" =>
           /\ Range(last.out) = DOMAIN products
           /\ Len(last.out) = Cardinality(DOMAIN products)

\* the proxy was queried with an available and an unavailable product stored
C5_Witness ==
    /\ last.op = "proxy_all"
    /\ \E p, q \in DOMAIN products :
           products[p].available /\ ~products[q].available

\* C6: the parent relation is a tree: following parent from any stored
\* category reaches a category without parent.
C6_ParentRelationIsTree ==
    \A c \in DOMAIN categories : LoopEnds(c)

\* title a comes strictly before title b alphabetically
Before(a, b) ==
    \/ Len(a) < Len(b) /\ SubSeq(b, 1, Len(a)) = a
    \/ \E i \in 1..Len(a) :
           /\ i <= Len(b)
           /\ SubSeq(a, 1, i - 1) = SubSeq(b, 1, i - 1)
           /\ CharRank(a[i]) < CharRank(b[i])

\* C7: the default queries of Product and of ProductProxy return their rows
\* in alphabetical order of title: no row comes after a row of a later title.
C7_OrderedByTitle ==
    last.op \in {"product_all", "proxy_all"} =>
        \A i, j \in DOMAIN last.out :
            i < j => ~Before(products[last.out[j]].title, products[last.out[i]].title)

\* Product was queried with the row saved second coming first, by its title
C7_Witness ==
    /\ last.op = "product_all"
    /\ Len(last.out) >= 2
    /\ last.out[1] > last.out[2]
    /\ products[last.out[1]].title # products[last.out[2]].title

\* C8 as stated: rand_slug returns exactly 3 characters, each a lowercase
\* letter or a digit, and changes no state at all: neither the tables nor the
\* random source the module draws from.
C8_RandSlugChangesNoState ==
    [][RandSlugCall(rng') =>
          /\ Len(last'.out) = 3
          /\ \A i \in DOMAIN last'.out : last'.out[i] \in TokenChars
          /\ Cardinality(TokenChars) = 36
          /\ categories' = categories /\ products' = products
          /\ nextCatId' = nextCatId /\ nextProdId' = nextProdId
          /\ rng' = rng]_vars

\* C8 amended: rand_slug returns exactly 3 characters, each a lowercase letter
\* or a digit, and leaves both tables and their pk counters as they were; the
\* random source is the one thing the call may change.
C8_RandSlugShape ==
    [][RandSlugCall(rng') =>
          /\ Len(last'.out) = 3
          /\ \A i \in DOMAIN last'.out : last'.out[i] \in TokenChars
          /\ Cardinality(TokenChars) = 36
          /\ categories' = categories /\ products' = products
          /\ nextCatId' = nextCatId /\ nextProdId' = nextProdId]_vars

\* rand_slug returned a token with a digit in it while a category was stored
C8_Witness ==
    /\ last.op = "rand_slug"
    /\ \E i \in DOMAIN last.out : last.out[i] \in Range(Digits)
    /\ DOMAIN categories # {}

\* the instance the step's save was called with, as the step recorded it: a
\* stored row's pk for an edited category, no pk for a new one
SavedInstance ==
    [pk |-> IF last'.pk \in DOMAIN categories THEN last'.pk ELSE 0,
     name |-> last'.name, parent |-> last'.parent, slug |-> last'.inSlug]

\* C9: save leaves a non-empty slug as it is: the instance keeps the slug it
\* had, that slug is what is stored, and no random token is consumed.
C9_SlugKept ==
    [][(/\ last'.op = "category_save"
        /\ SavedInstance.slug # <<>>
        /\ CategorySave(SavedInstance, rng')) =>
          /\ last'.slug = SavedInstance.slug
          /\ last'.ok => categories'[last'.pk].slug = SavedInstance.slug
          /\ rng' = rng]_vars

\* a category whose slug was generated from an earlier name was saved again
\* under another name
C9_Witness ==
    /\ last.op = "category_save" /\ last.ok
    /\ last.inSlug # <<>>
    /\ last.inSlug \notin SuppliedSlugs
    /\ slugify(last.name) # <<>>
    /\ ~EndsWith(last.slug, slugify(last.name))

\* C10: a save whose (slug, parent) pair is that of another stored category is
\* refused and leaves both tables as they were.
C10_CollisionRejected ==
    [][(/\ last'.op = "category_save"
        /\ CategorySave(SavedInstance, rng')
        /\ \E k \in DOMAIN categories :
               /\ k # SavedInstance.pk
               /\ categories[k].slug = last'.slug
               /\ categories[k].parent = SavedInstance.parent) =>
          /\ ~last'.ok
          /\ categories' = categories
          /\ products' = products
          /\ nextCatId' = nextCatId]_vars

\* a save with a generated slug was refused: the token drawn gave the slug of
\* a stored category with the same parent; a product is stored
C10_Witness ==
    /\ last.op = "category_save" /\ ~last.ok
    /\ last.inSlug = <<>>
    /\ DOMAIN products # {}
    /\ \E k \in DOMAIN categories :
           /\ k # last.pk
           /\ categories[k].slug = last.slug
           /\ categories[k].parent = last.parent

====
